---- MODULE Spec2Model ----
(***************************************************************************)
(* Digital Library: the Library object (library_core.py), the persistence  *)
(* gateway (storage.py) and the Streamlit handlers that drive them         *)
(* (app.py).                                                               *)
(*                                                                         *)
(* Conventions.                                                            *)
(*  - Every `with lock:` block of the source is one atomic action: all     *)
(*    shared state is guarded by the single RLock of the Library, which    *)
(*    get_store hands out as store["lock"].  A state of the model is a     *)
(*    point at which no session holds the lock.  SpecLock is the exception:*)
(*    there the lock is state, and every acquire and release is a step.    *)
(*  - A dict is a sequence of <<key, value>> pairs with distinct keys, in  *)
(*    insertion order (the order Python iterates it in).                   *)
(*  - Prices and amounts are integers (the floats of the source carry      *)
(*    whole amounts in the model).  The "time" field of an order is the    *)
(*    wall clock and is left out.                                          *)
(***************************************************************************)
EXTENDS Integers, Sequences, FiniteSets, TLC

VARIABLES books, users, borrow_records, orders, disk, pc, cart, loc, ret, lock

vars == <<books, users, borrow_records, orders, disk, pc, cart, loc, ret, lock>>

\* ------------------------------------------------------------------ bounds
MaxCopies == 2
MaxQty == 2
MaxOrders == 2
MaxPrice == 1
MaxBorrows == 2

None == "None"
Sessions == {"s1", "s2"}
AppBookIds == {"B1"}
LibBookIds == {"B1", "B2"}
UserNames == {"ann"}
Titles == {"T1"}
Authors == {"A1"}

\* order statuses (app.py:544, 595, 397, 416)
PENDING_PAYMENT == "PENDING_PAYMENT"
PAID == "PAID"
DELIVERED == "DELIVERED"
CANCELLED == "CANCELLED (RESTOCKED)"

\* ------------------------------------------------------------------ helpers
Max2(a, b) == IF a >= b THEN a ELSE b
Min2(a, b) == IF a <= b THEN a ELSE b

EmptyDict == [k \in {} |-> None]

\* d[k] = v for a mapping kept as a function (Library.books, Library.users)
Put(d, k, v) == [x \in (DOMAIN d) \cup {k} |-> IF x = k THEN v ELSE d[x]]

\* keys of a dict kept as a sequence of pairs
Keys(items) == {items[i][1] : i \in DOMAIN items}

\* items.get(k, 0)
DictGet(items, k) ==
    IF k \in Keys(items)
    THEN LET i == CHOOSE j \in DOMAIN items : items[j][1] = k IN items[i][2]
    ELSE 0

\* items[k] = v: an existing key keeps its position, a new key goes last
DictSet(items, k, v) ==
    IF k \in Keys(items)
    THEN [i \in DOMAIN items |-> IF items[i][1] = k THEN <<k, v>> ELSE items[i]]
    ELSE Append(items, <<k, v>>)

\* items.pop(k, None)
DictPop(items, k) == SelectSeq(items, LAMBDA p : p[1] # k)

\* ------------------------------------------------------------------ RLock
\* the lock of the Library (library_core.py:79), which get_store also hands out
\* as store["lock"]: its owner and how many times the owner has acquired it
LockFree == [owner |-> None, count |-> 0]

\* a lock that its owner cannot acquire again
lock_can_acquire(l, t) == l.owner = None

\* acquire returns at once when the lock is free or the caller owns it
rlock_can_acquire(l, t) == l.owner = None \/ l.owner = t

rlock_acquire(l, t) == [owner |-> t, count |-> l.count + 1]

rlock_release(l) ==
    IF l.count <= 1 THEN LockFree ELSE [l EXCEPT !.count = l.count - 1]

\* ------------------------------------------------------------------ Book
Book(title, author, book_id, total_copies, image_url, image_bytes, image_mime, price) ==
    [title |-> title, author |-> author, book_id |-> book_id,
     total_copies |-> total_copies, available_copies |-> total_copies,
     price |-> price,
     image_url |-> image_url, image_bytes |-> image_bytes, image_mime |-> image_mime]

is_available(b) == b.available_copies > 0

\* ------------------------------------------------------------------ Library
\* Every Library operation below is the body of one `with self._lock:` block,
\* as a function of the state it reads to the state it leaves and its result.

\* add_book that adds the copies of a repeated save to the stock
add_book_additive(bks, title, author, book_id, total_copies, image_url, image_bytes, image_mime) ==
    IF total_copies <= 0
    THEN [books |-> bks, msg |-> <<"total_copies must be > 0.">>]
    ELSE IF book_id \in DOMAIN bks
    THEN LET b == bks[book_id]
             d == b.total_copies - b.available_copies
             sold_or_out == IF d < 0 THEN 0 ELSE d
             avail == Min2(total_copies, Max2(0, total_copies - sold_or_out))
             b1 == [b EXCEPT !.title = title, !.author = author,
                             !.total_copies = b.total_copies + total_copies,
                             !.available_copies = b.available_copies + total_copies]
             b2 == IF image_bytes # None
                   THEN [b1 EXCEPT !.image_bytes = image_bytes,
                                   !.image_mime = image_mime,
                                   !.image_url = None]
                   ELSE IF image_url \notin {None, ""}
                   THEN [b1 EXCEPT !.image_url = image_url,
                                   !.image_bytes = None,
                                   !.image_mime = None]
                   ELSE b1
         IN [books |-> [bks EXCEPT ![book_id] = b2],
             msg |-> <<"Book updated (total copies set).">>]
    ELSE [books |-> Put(bks, book_id,
                        Book(title, author, book_id, total_copies,
                             image_url, image_bytes, image_mime, 0)),
          msg |-> <<"Book added successfully.">>]

\* add_book that refuses negative totals only
add_book_unchecked(bks, title, author, book_id, total_copies, image_url, image_bytes, image_mime) ==
    IF total_copies < 0
    THEN [books |-> bks, msg |-> <<"total_copies must be > 0.">>]
    ELSE IF book_id \in DOMAIN bks
    THEN LET b == bks[book_id]
             d == b.total_copies - b.available_copies
             sold_or_out == IF d < 0 THEN 0 ELSE d
             avail == Min2(total_copies, Max2(0, total_copies - sold_or_out))
             b1 == [b EXCEPT !.title = title, !.author = author,
                             !.total_copies = total_copies,
                             !.available_copies = avail]
             b2 == IF image_bytes # None
                   THEN [b1 EXCEPT !.image_bytes = image_bytes,
                                   !.image_mime = image_mime,
                                   !.image_url = None]
                   ELSE IF image_url \notin {None, ""}
                   THEN [b1 EXCEPT !.image_url = image_url,
                                   !.image_bytes = None,
                                   !.image_mime = None]
                   ELSE b1
         IN [books |-> [bks EXCEPT ![book_id] = b2],
             msg |-> <<"Book updated (total copies set).">>]
    ELSE [books |-> Put(bks, book_id,
                        Book(title, author, book_id, total_copies,
                             image_url, image_bytes, image_mime, 0)),
          msg |-> <<"Book added successfully.">>]

add_book(bks, title, author, book_id, total_copies, image_url, image_bytes, image_mime) ==
    IF total_copies <= 0
    THEN [books |-> bks, msg |-> <<"total_copies must be > 0.">>]
    ELSE IF book_id \in DOMAIN bks
    THEN LET b == bks[book_id]
             d == b.total_copies - b.available_copies
             sold_or_out == IF d < 0 THEN 0 ELSE d
             avail == Min2(total_copies, Max2(0, total_copies - sold_or_out))
             b1 == [b EXCEPT !.title = title, !.author = author,
                             !.total_copies = total_copies,
                             !.available_copies = avail]
             b2 == IF image_bytes # None
                   THEN [b1 EXCEPT !.image_bytes = image_bytes,
                                   !.image_mime = image_mime,
                                   !.image_url = None]
                   ELSE IF image_url \notin {None, ""}
                   THEN [b1 EXCEPT !.image_url = image_url,
                                   !.image_bytes = None,
                                   !.image_mime = None]
                   ELSE b1
         IN [books |-> [bks EXCEPT ![book_id] = b2],
             msg |-> <<"Book updated (total copies set).">>]
    ELSE [books |-> Put(bks, book_id,
                        Book(title, author, book_id, total_copies,
                             image_url, image_bytes, image_mime, 0)),
          msg |-> <<"Book added successfully.">>]

\* set_price that creates the book when the id is unknown
set_price_upsert(bks, book_id, price) ==
    IF book_id \notin DOMAIN bks
    THEN [books |-> Put(bks, book_id,
                        Book("", "", book_id, 0, None, None, None, price)),
          msg |-> <<"Price updated.">>]
    ELSE [books |-> [bks EXCEPT ![book_id].price = price],
          msg |-> <<"Price updated.">>]

set_price(bks, book_id, price) ==
    IF book_id \notin DOMAIN bks
    THEN [books |-> bks, msg |-> <<"Book ID not found.">>]
    ELSE [books |-> [bks EXCEPT ![book_id].price = price],
          msg |-> <<"Price updated.">>]

add_stock(bks, book_id, qty) ==
    IF qty <= 0
    THEN [books |-> bks, msg |-> <<"qty must be > 0.">>]
    ELSE IF book_id \notin DOMAIN bks
    THEN [books |-> bks, msg |-> <<"Book ID not found.">>]
    ELSE LET b == bks[book_id]
             t == b.total_copies + qty
         IN [books |-> [bks EXCEPT ![book_id].total_copies = t,
                                   ![book_id].available_copies =
                                       Min2(t, b.available_copies + qty)],
             msg |-> <<"Stock added.">>]

\* the loop of can_purchase from line i of the batch on
RECURSIVE can_purchase_from(_, _, _)
can_purchase_from(bks, items, i) ==
    IF i > Len(items)
    THEN [ok |-> TRUE, msg |-> <<"OK">>]
    ELSE LET bid == items[i][1]
             q == items[i][2]
         IN IF bid \notin DOMAIN bks
            THEN [ok |-> FALSE, msg |-> <<"Book ID not found: ", bid>>]
            ELSE IF q <= 0
            THEN [ok |-> FALSE, msg |-> <<"Qty must be > 0.">>]
            ELSE IF bks[bid].available_copies < q
            THEN [ok |-> FALSE, msg |-> <<"Not enough stock for ", bks[bid].title>>]
            ELSE can_purchase_from(bks, items, i + 1)

can_purchase(bks, items) == can_purchase_from(bks, items, 1)

\* purchase_line without the clamp at 0
purchase_line_noclamp(b, q) ==
    [b EXCEPT !.available_copies = b.available_copies - q]

\* one iteration of the loop of purchase: decrement, then clamp at 0
purchase_line(b, q) ==
    [b EXCEPT !.available_copies = Max2(0, b.available_copies - q)]

\* the second lock block of purchase: the decrement loop from line i on
RECURSIVE purchase_from(_, _, _)
purchase_from(bks, items, i) ==
    IF i > Len(items)
    THEN bks
    ELSE LET bid == items[i][1]
             q == items[i][2]
         IN purchase_from([bks EXCEPT ![bid] = purchase_line(bks[bid], q)],
                          items, i + 1)

purchase_decrement(bks, items) == purchase_from(bks, items, 1)

\* purchase that decrements line by line as it checks, and stops at the first
\* line that fails without undoing the lines before it
RECURSIVE purchase_eager_from(_, _, _)
purchase_eager_from(bks, items, i) ==
    IF i > Len(items)
    THEN [books |-> bks, ok |-> TRUE, msg |-> <<"Purchased.">>]
    ELSE LET r == can_purchase_from(bks, SubSeq(items, i, i), 1)
         IN IF ~r.ok
            THEN [books |-> bks, ok |-> FALSE, msg |-> r.msg]
            ELSE purchase_eager_from(
                     purchase_from(bks, SubSeq(items, i, i), 1), items, i + 1)

purchase_eager(bks, items) == purchase_eager_from(bks, items, 1)

\* purchase as one call: can_purchase, then the decrement
purchase(bks, items) ==
    LET r == can_purchase(bks, items)
    IN IF ~r.ok
       THEN [books |-> bks, ok |-> FALSE, msg |-> r.msg]
       ELSE [books |-> purchase_decrement(bks, items), ok |-> TRUE,
             msg |-> <<"Purchased.">>]

\* the loop of restock without the limit at total_copies
RECURSIVE restock_from_unclamped(_, _, _)
restock_from_unclamped(bks, items, i) ==
    IF i > Len(items)
    THEN bks
    ELSE LET bid == items[i][1]
             q == items[i][2]
         IN IF bid \in DOMAIN bks
            THEN restock_from_unclamped(
                     [bks EXCEPT ![bid].available_copies =
                          bks[bid].available_copies + q],
                     items, i + 1)
            ELSE restock_from_unclamped(bks, items, i + 1)

\* the loop of restock from line i on
RECURSIVE restock_from(_, _, _)
restock_from(bks, items, i) ==
    IF i > Len(items)
    THEN bks
    ELSE LET bid == items[i][1]
             q == items[i][2]
         IN IF bid \in DOMAIN bks
            THEN restock_from(
                     [bks EXCEPT ![bid].available_copies =
                          Min2(bks[bid].total_copies, bks[bid].available_copies + q)],
                     items, i + 1)
            ELSE restock_from(bks, items, i + 1)

restock(bks, items) == restock_from(bks, items, 1)

\* list.remove(x): drops the first occurrence of x
RemoveFirst(s, x) ==
    IF \E i \in DOMAIN s : s[i] = x
    THEN LET i == CHOOSE j \in DOMAIN s :
                      s[j] = x /\ \A k \in 1..(j - 1) : s[k] # x
         IN SubSeq(s, 1, i - 1) \o SubSeq(s, i + 1, Len(s))
    ELSE s

get_or_create_user(usrs, user_name) ==
    IF user_name \in DOMAIN usrs THEN usrs ELSE Put(usrs, user_name, <<>>)

\* borrow_book that looks up (and creates) the user before it tests the book
borrow_book_user_first(bks, usrs, recs, user_name, book_id) ==
    LET u1 == get_or_create_user(usrs, user_name)
    IN IF book_id \notin DOMAIN bks
       THEN [books |-> bks, users |-> u1, borrow_records |-> recs,
             msg |-> <<"Book ID not found.">>]
       ELSE IF ~is_available(bks[book_id])
       THEN [books |-> bks, users |-> u1, borrow_records |-> recs,
             msg |-> <<"No copies available.">>]
       ELSE [books |-> [bks EXCEPT ![book_id].available_copies = @ - 1],
             users |-> [u1 EXCEPT ![user_name] = Append(@, book_id)],
             borrow_records |->
                 Append(recs, [user |-> user_name, book_id |-> book_id,
                               title |-> bks[book_id].title]),
             msg |-> <<user_name, " borrowed ", bks[book_id].title>>]

borrow_book(bks, usrs, recs, user_name, book_id) ==
    IF book_id \notin DOMAIN bks
    THEN [books |-> bks, users |-> usrs, borrow_records |-> recs,
          msg |-> <<"Book ID not found.">>]
    ELSE IF ~is_available(bks[book_id])
    THEN [books |-> bks, users |-> usrs, borrow_records |-> recs,
          msg |-> <<"No copies available.">>]
    ELSE LET u1 == get_or_create_user(usrs, user_name)
         IN [books |-> [bks EXCEPT ![book_id].available_copies = @ - 1],
             users |-> [u1 EXCEPT ![user_name] = Append(@, book_id)],
             borrow_records |->
                 Append(recs, [user |-> user_name, book_id |-> book_id,
                               title |-> bks[book_id].title]),
             msg |-> <<user_name, " borrowed ", bks[book_id].title>>]

\* return_book that leaves the borrow record in place
return_book_keeps_record(bks, usrs, recs, user_name, book_id) ==
    IF book_id \notin DOMAIN bks
    THEN [books |-> bks, users |-> usrs, borrow_records |-> recs,
          msg |-> <<"Book ID not found in library.">>]
    ELSE IF user_name \notin DOMAIN usrs
    THEN [books |-> bks, users |-> usrs, borrow_records |-> recs,
          msg |-> <<"User not found.">>]
    ELSE IF ~(\E i \in DOMAIN usrs[user_name] : usrs[user_name][i] = book_id)
    THEN [books |-> bks, users |-> usrs, borrow_records |-> recs,
          msg |-> <<"This user did not borrow this book.">>]
    ELSE LET hit(r) == r.user = user_name /\ r.book_id = book_id
             recs1 == IF \E i \in DOMAIN recs : hit(recs[i])
                      THEN LET i == CHOOSE j \in DOMAIN recs :
                                        hit(recs[j])
                                        /\ \A k \in 1..(j - 1) : ~hit(recs[k])
                           IN SubSeq(recs, 1, i - 1) \o SubSeq(recs, i + 1, Len(recs))
                      ELSE recs
         IN [books |-> [bks EXCEPT ![book_id].available_copies =
                            Min2(bks[book_id].total_copies, @ + 1)],
             users |-> [usrs EXCEPT ![user_name] = RemoveFirst(@, book_id)],
             borrow_records |-> recs,
             msg |-> <<user_name, " returned ", bks[book_id].title>>]

return_book(bks, usrs, recs, user_name, book_id) ==
    IF book_id \notin DOMAIN bks
    THEN [books |-> bks, users |-> usrs, borrow_records |-> recs,
          msg |-> <<"Book ID not found in library.">>]
    ELSE IF user_name \notin DOMAIN usrs
    THEN [books |-> bks, users |-> usrs, borrow_records |-> recs,
          msg |-> <<"User not found.">>]
    ELSE IF ~(\E i \in DOMAIN usrs[user_name] : usrs[user_name][i] = book_id)
    THEN [books |-> bks, users |-> usrs, borrow_records |-> recs,
          msg |-> <<"This user did not borrow this book.">>]
    ELSE LET hit(r) == r.user = user_name /\ r.book_id = book_id
             recs1 == IF \E i \in DOMAIN recs : hit(recs[i])
                      THEN LET i == CHOOSE j \in DOMAIN recs :
                                        hit(recs[j])
                                        /\ \A k \in 1..(j - 1) : ~hit(recs[k])
                           IN SubSeq(recs, 1, i - 1) \o SubSeq(recs, i + 1, Len(recs))
                      ELSE recs
         IN [books |-> [bks EXCEPT ![book_id].available_copies =
                            Min2(bks[book_id].total_copies, @ + 1)],
             users |-> [usrs EXCEPT ![user_name] = RemoveFirst(@, book_id)],
             borrow_records |-> recs1,
             msg |-> <<user_name, " returned ", bks[book_id].title>>]

to_dict(bks) ==
    [bid \in DOMAIN bks |->
        [title |-> bks[bid].title, author |-> bks[bid].author,
         total_copies |-> bks[bid].total_copies,
         available_copies |-> bks[bid].available_copies,
         price |-> bks[bid].price, image_url |-> bks[bid].image_url]]

\* Book(...) for every saved record, then available_copies as saved
load_from_dict(data) ==
    [bid \in DOMAIN data |->
        [Book(data[bid].title, data[bid].author, bid, data[bid].total_copies,
              data[bid].image_url, None, None, data[bid].price)
         EXCEPT !.available_copies = data[bid].available_copies]]

\* ------------------------------------------------------------------ storage
\* what persist_now hands to save_state, and save_state writes as one blob
Blob(bks, ords) == [books |-> to_dict(bks), orders |-> ords]

\* JSON text is modelled by its values, each tagged with its JSON type: a
\* string, a number or null
JsonStr(v) == <<"str", v>>
JsonNum(v) == <<"num", v>>
JsonOpt(v) == IF v = None THEN <<"null">> ELSE <<"str", v>>
JsonVal(j) == IF j = <<"null">> THEN None ELSE j[2]

\* json.dumps of the state object, written to the file: a file is <<>> when it
\* does not exist and <<text>> when it does
save_state(books_dict, orders_list) ==
    <<[books |->
          [bid \in DOMAIN books_dict |->
              [title |-> JsonStr(books_dict[bid].title),
               author |-> JsonStr(books_dict[bid].author),
               total_copies |-> JsonNum(books_dict[bid].total_copies),
               available_copies |-> JsonNum(books_dict[bid].available_copies),
               price |-> JsonNum(books_dict[bid].price),
               image_url |-> JsonOpt(books_dict[bid].image_url)]],
       orders |->
          [i \in DOMAIN orders_list |->
              [order_id |-> JsonStr(orders_list[i].order_id),
               customer |-> JsonStr(orders_list[i].customer),
               user_id |-> JsonStr(orders_list[i].user_id),
               items |-> [k \in DOMAIN orders_list[i].items |->
                             <<JsonStr(orders_list[i].items[k][1]),
                               JsonNum(orders_list[i].items[k][2])>>],
               status |-> JsonStr(orders_list[i].status),
               total_usd |-> JsonNum(orders_list[i].total_usd),
               admin_note |-> JsonStr(orders_list[i].admin_note)]]]>>

\* json.load of the file; no file gives the empty state
load_state(file) ==
    IF file = <<>>
    THEN [books |-> EmptyDict, orders |-> <<>>]
    ELSE LET t == file[1]
         IN [books |->
                [bid \in DOMAIN t.books |->
                    [title |-> JsonVal(t.books[bid].title),
                     author |-> JsonVal(t.books[bid].author),
                     total_copies |-> JsonVal(t.books[bid].total_copies),
                     available_copies |-> JsonVal(t.books[bid].available_copies),
                     price |-> JsonVal(t.books[bid].price),
                     image_url |-> JsonVal(t.books[bid].image_url)]],
             orders |->
                [i \in DOMAIN t.orders |->
                    [order_id |-> JsonVal(t.orders[i].order_id),
                     customer |-> JsonVal(t.orders[i].customer),
                     user_id |-> JsonVal(t.orders[i].user_id),
                     items |-> [k \in DOMAIN t.orders[i].items |->
                                   <<JsonVal(t.orders[i].items[k][1]),
                                     JsonVal(t.orders[i].items[k][2])>>],
                     status |-> JsonVal(t.orders[i].status),
                     total_usd |-> JsonVal(t.orders[i].total_usd),
                     admin_note |-> JsonVal(t.orders[i].admin_note)]]]

\* ------------------------------------------------------------------ app helpers
RECURSIVE order_total_from(_, _, _)
order_total_from(bks, items, i) ==
    IF i > Len(items)
    THEN 0
    ELSE LET bid == items[i][1]
             q == items[i][2]
         IN (IF bid \in DOMAIN bks THEN bks[bid].price * q ELSE 0)
            + order_total_from(bks, items, i + 1)

order_total(bks, items) == order_total_from(bks, items, 1)

\* index of the first order with that id; 0 stands for None
find_order_index(ords, order_id) ==
    IF order_id = <<>>
    THEN 0
    ELSE IF \E i \in DOMAIN ords : ords[i].order_id = order_id
    THEN CHOOSE i \in DOMAIN ords :
             ords[i].order_id = order_id
             /\ \A k \in 1..(i - 1) : ords[k].order_id # order_id
    ELSE 0

\* the decimal digits of n, most significant first
RECURSIVE DecDigits(_)
DecDigits(n) == IF n < 10 THEN <<n>> ELSE Append(DecDigits(n \div 10), n % 10)

\* format spec 05d: zero-padded to at least five digits
Format05d(n) ==
    LET ds == DecDigits(n)
    IN IF Len(ds) >= 5 THEN ds ELSE [i \in 1..(5 - Len(ds)) |-> 0] \o ds

\* an id numbered by the orders that are still open instead of by the ledger length
new_order_id_open(ords) ==
    <<"ORD-">> \o Format05d(Len(SelectSeq(ords, LAMBDA o : o.status # CANCELLED)) + 1)

\* f"ORD-{len(store['orders']) + 1:05d}"
new_order_id(ords) == <<"ORD-">> \o Format05d(Len(ords) + 1)

\* the admin note of the payment reminder
reminder_note(order_id) == <<"still unpaid">> \o order_id

\* ------------------------------------------------------------------ state
LocInit == [total |-> 0, oid |-> <<>>, idx |-> 0, snap |-> <<>>, args |-> <<>>]
RetInit == [op |-> "none", args |-> <<>>, msg |-> <<>>]

\* the state file the process starts from: a catalog saved by an earlier run
StateFile ==
    Blob(set_price(add_book(EmptyDict, "T1", "A1", "B1", MaxCopies, None, None, None).books,
                   "B1", MaxPrice).books,
         <<>>)

\* get_store (app.py:89-99): the Library loaded from the state file
Init ==
    /\ disk = StateFile
    /\ books = load_from_dict(disk.books)
    /\ orders = disk.orders
    /\ users = EmptyDict
    /\ borrow_records = <<>>
    /\ pc = [s \in Sessions |-> "idle"]
    /\ cart = [s \in Sessions |-> <<>>]
    /\ loc = [s \in Sessions |-> LocInit]
    /\ ret = RetInit
    /\ lock = LockFree

\* sessions that are inside the confirm_order handler
Ordering == {s \in Sessions : pc[s] \in {"purchase", "purchase_dec", "append_order"}}

\* ------------------------------------------------------------------ admin handlers
\* A session is a Streamlit script thread; after logout it can log in in the
\* other role, so every session may run the admin and the user handlers.  A
\* button handler runs only in a script run that drew its button enabled.
\* The catalog handler (Save Book with its persist_now outside the lock block)
\* is modelled here and left out of Next, whose catalog comes from the state
\* file.
\* Save Book that also re-prices the orders of the ledger from the new catalog
SaveBookReprice(s, title, author, bid, total, price) ==
    /\ pc[s] = "idle"
    /\ LET r1 == add_book(books, title, author, bid, total, None, None, None)
           r2 == set_price(r1.books, bid, price)
       IN /\ books' = r2.books
          /\ orders' = [i \in DOMAIN orders |->
                           [orders[i] EXCEPT !.total_usd =
                                order_total(r2.books, orders[i].items)]]
    /\ pc' = [pc EXCEPT ![s] = "persist_snapshot"]
    /\ UNCHANGED <<lock, users, borrow_records, disk, cart, loc, ret>>

\* Save Book: the lock block of app.py:310-320
SaveBook(s, title, author, bid, total, price) ==
    /\ pc[s] = "idle"
    /\ LET r1 == add_book(books, title, author, bid, total, None, None, None)
           r2 == set_price(r1.books, bid, price)
       IN books' = r2.books
    /\ pc' = [pc EXCEPT ![s] = "persist_snapshot"]
    /\ UNCHANGED <<lock, users, borrow_records, orders, disk, cart, loc, ret>>

\* persist_now called with the lock released (app.py:321): its own lock block
PersistSnapshot(s) ==
    /\ pc[s] = "persist_snapshot"
    /\ loc' = [loc EXCEPT ![s].snap = <<Blob(books, orders)>>]
    /\ pc' = [pc EXCEPT ![s] = "save_state"]
    /\ UNCHANGED <<lock, books, users, borrow_records, orders, disk, cart, ret>>

\* ... and its save_state, after the lock block (app.py:153)
SaveState(s) ==
    /\ pc[s] = "save_state"
    /\ disk' = loc[s].snap[1]
    /\ loc' = [loc EXCEPT ![s] = LocInit]
    /\ pc' = [pc EXCEPT ![s] = "idle"]
    /\ UNCHANGED <<lock, books, users, borrow_records, orders, cart, ret>>

\* Mark Delivered: the button is enabled by the status read at app.py:394
DeliverCheck(s, i) ==
    /\ pc[s] = "idle"
    /\ i \in DOMAIN orders
    /\ orders[i].status = PAID
    /\ loc' = [loc EXCEPT ![s].idx = find_order_index(orders, orders[i].order_id)]
    /\ pc' = [pc EXCEPT ![s] = "deliver_write"]
    /\ UNCHANGED <<lock, books, users, borrow_records, orders, disk, cart, ret>>

\* ... and its handler, the lock block of app.py:396-398
DeliverWrite(s) ==
    /\ pc[s] = "deliver_write"
    /\ orders' = [orders EXCEPT ![loc[s].idx].status = DELIVERED]
    /\ disk' = Blob(books, orders')
    /\ loc' = [loc EXCEPT ![s] = LocInit]
    /\ pc' = [pc EXCEPT ![s] = "idle"]
    /\ UNCHANGED <<lock, books, users, borrow_records, cart, ret>>

\* a reminder that also puts the order back to PENDING_PAYMENT
SendReminderReopen(s, i) ==
    /\ pc[s] = "idle"
    /\ i \in DOMAIN orders
    /\ LET idx == find_order_index(orders, orders[i].order_id)
       IN orders' = [orders EXCEPT ![idx].admin_note = reminder_note(orders[i].order_id),
                                   ![idx].status = PENDING_PAYMENT]
    /\ disk' = Blob(books, orders')
    /\ UNCHANGED <<lock, books, users, borrow_records, pc, cart, loc, ret>>

\* Send payment reminder (app.py:403-410)
SendReminder(s, i) ==
    /\ pc[s] = "idle"
    /\ i \in DOMAIN orders
    /\ LET idx == find_order_index(orders, orders[i].order_id)
       IN orders' = [orders EXCEPT ![idx].admin_note = reminder_note(orders[i].order_id)]
    /\ disk' = Blob(books, orders')
    /\ UNCHANGED <<lock, books, users, borrow_records, pc, cart, loc, ret>>

\* a cancel that takes the order out of the ledger
CancelRemove(s, i) ==
    /\ pc[s] = "idle"
    /\ i \in DOMAIN orders
    /\ LET idx == find_order_index(orders, orders[i].order_id)
           items_to_restock == orders[idx].items
       IN /\ orders' = SubSeq(orders, 1, idx - 1) \o SubSeq(orders, idx + 1, Len(orders))
          /\ books' = restock(books, items_to_restock)
    /\ disk' = Blob(books', orders')
    /\ UNCHANGED <<lock, users, borrow_records, pc, cart, loc, ret>>

\* Cancel (Restock) (app.py:413-419)
CancelRestock(s, i) ==
    /\ pc[s] = "idle"
    /\ i \in DOMAIN orders
    /\ LET idx == find_order_index(orders, orders[i].order_id)
           items_to_restock == orders[idx].items
       IN /\ orders' = [orders EXCEPT ![idx].status = CANCELLED]
          /\ books' = restock(books, items_to_restock)
    /\ disk' = Blob(books', orders')
    /\ UNCHANGED <<lock, users, borrow_records, pc, cart, loc, ret>>

\* ------------------------------------------------------------------ user handlers
\* Add to cart (app.py:467-496): the quantity widget allows 1..available_copies
AddToCart(s, bid, qty) ==
    /\ pc[s] = "idle"
    /\ bid \in DOMAIN books
    /\ books[bid].available_copies > 0
    /\ qty \in 1..books[bid].available_copies
    /\ DictGet(cart[s], bid) + qty <= MaxQty
    /\ cart' = [cart EXCEPT ![s] = DictSet(@, bid, DictGet(@, bid) + qty)]
    /\ UNCHANGED <<lock, books, users, borrow_records, orders, disk, pc, loc, ret>>

\* Remove (app.py:519-521)
RemoveFromCart(s, bid) ==
    /\ pc[s] = "idle"
    /\ bid \in Keys(cart[s])
    /\ cart' = [cart EXCEPT ![s] = DictPop(@, bid)]
    /\ UNCHANGED <<lock, books, users, borrow_records, orders, disk, pc, loc, ret>>

\* Place Order, the run up to the form: the cart total (app.py:501-505)
CartTotal(s) ==
    /\ pc[s] = "idle"
    /\ cart[s] # <<>>
    /\ Len(orders) + Cardinality(Ordering) < MaxOrders
    /\ loc' = [loc EXCEPT ![s].total = order_total(books, cart[s])]
    /\ pc' = [pc EXCEPT ![s] = "purchase"]
    /\ UNCHANGED <<lock, books, users, borrow_records, orders, disk, cart, ret>>

\* lib.purchase(items), first lock block: can_purchase (app.py:531-534)
PurchaseCheck(s) ==
    /\ pc[s] = "purchase"
    /\ IF can_purchase(books, cart[s]).ok
       THEN /\ pc' = [pc EXCEPT ![s] = "purchase_dec"]
            /\ loc' = loc
       ELSE /\ pc' = [pc EXCEPT ![s] = "idle"]
            /\ loc' = [loc EXCEPT ![s] = LocInit]
    /\ UNCHANGED <<lock, books, users, borrow_records, orders, disk, cart, ret>>

\* lib.purchase(items), second lock block: the decrement
PurchaseDecrement(s) ==
    /\ pc[s] = "purchase_dec"
    /\ books' = purchase_decrement(books, cart[s])
    /\ pc' = [pc EXCEPT ![s] = "append_order"]
    /\ UNCHANGED <<lock, users, borrow_records, orders, disk, cart, loc, ret>>

\* the lock block of app.py:536-548, then the cart reset of line 550
AppendOrder(s) ==
    /\ pc[s] = "append_order"
    /\ orders' = Append(orders,
                        [order_id |-> new_order_id(orders),
                         customer |-> s, user_id |-> s,
                         items |-> cart[s],
                         status |-> PENDING_PAYMENT,
                         total_usd |-> loc[s].total,
                         admin_note |-> <<>>])
    /\ disk' = Blob(books, orders')
    /\ cart' = [cart EXCEPT ![s] = <<>>]
    /\ loc' = [loc EXCEPT ![s] = LocInit]
    /\ pc' = [pc EXCEPT ![s] = "idle"]
    /\ UNCHANGED <<lock, books, users, borrow_records, ret>>

\* My Orders: the rows of orders_view_rows (app.py:559-560); Pay Now is
\* enabled by the status copied into the row (app.py:586)
PayRender(s, i) ==
    /\ pc[s] = "idle"
    /\ i \in DOMAIN orders
    /\ orders[i].customer = s
    /\ orders[i].status = PENDING_PAYMENT
    /\ loc' = [loc EXCEPT ![s].oid = orders[i].order_id]
    /\ pc' = [pc EXCEPT ![s] = "pay_find"]
    /\ UNCHANGED <<lock, books, users, borrow_records, orders, disk, cart, ret>>

\* Pay Now handler: find_order_index (app.py:592-593)
PayFind(s) ==
    /\ pc[s] = "pay_find"
    /\ LET idx == find_order_index(orders, loc[s].oid)
       IN IF idx # 0
          THEN /\ loc' = [loc EXCEPT ![s].idx = idx]
               /\ pc' = [pc EXCEPT ![s] = "pay_write"]
          ELSE /\ loc' = [loc EXCEPT ![s] = LocInit]
               /\ pc' = [pc EXCEPT ![s] = "idle"]
    /\ UNCHANGED <<lock, books, users, borrow_records, orders, disk, cart, ret>>

\* Pay Now handler: the lock block of app.py:594-596
PayWrite(s) ==
    /\ pc[s] = "pay_write"
    /\ orders' = [orders EXCEPT ![loc[s].idx].status = PAID]
    /\ disk' = Blob(books, orders')
    /\ loc' = [loc EXCEPT ![s] = LocInit]
    /\ pc' = [pc EXCEPT ![s] = "idle"]
    /\ UNCHANGED <<lock, books, users, borrow_records, cart, ret>>

\* the order handlers of every session
Next ==
    \E s \in Sessions :
        \/ \E i \in 1..MaxOrders : DeliverCheck(s, i)
        \/ DeliverWrite(s)
        \/ \E i \in 1..MaxOrders : SendReminder(s, i)
        \/ \E i \in 1..MaxOrders : CancelRestock(s, i)
        \/ \E bid \in AppBookIds, q \in 1..MaxQty : AddToCart(s, bid, q)
        \/ \E bid \in AppBookIds : RemoveFromCart(s, bid)
        \/ CartTotal(s)
        \/ PurchaseCheck(s)
        \/ PurchaseDecrement(s)
        \/ AppendOrder(s)
        \/ \E i \in 1..MaxOrders : PayRender(s, i)
        \/ PayFind(s)
        \/ PayWrite(s)

Spec == Init /\ [][Next]_vars

\* The shop with the catalog handler: one session logged in as admin and one as
\* user (app.py:215-245).  The Copies widget of Save Book has min_value=1 and
\* its Price widget min_value=0.0 (app.py:284-285).
Admins == {"s1"}
Customers == {"s2"}

NextShop ==
    \/ \E s \in Admins :
           \/ \E title \in Titles, a \in Authors, bid \in AppBookIds,
                 n \in 1..MaxCopies, p \in 0..MaxPrice :
                  SaveBook(s, title, a, bid, n, p)
           \/ PersistSnapshot(s)
           \/ SaveState(s)
           \/ \E i \in 1..MaxOrders : DeliverCheck(s, i)
           \/ DeliverWrite(s)
           \/ \E i \in 1..MaxOrders : SendReminder(s, i)
           \/ \E i \in 1..MaxOrders : CancelRestock(s, i)
    \/ \E s \in Customers :
           \/ \E bid \in AppBookIds, q \in 1..MaxQty : AddToCart(s, bid, q)
           \/ \E bid \in AppBookIds : RemoveFromCart(s, bid)
           \/ CartTotal(s)
           \/ PurchaseCheck(s)
           \/ PurchaseDecrement(s)
           \/ AppendOrder(s)
           \/ \E i \in 1..MaxOrders : PayRender(s, i)
           \/ PayFind(s)
           \/ PayWrite(s)

SpecShop == Init /\ [][NextShop]_vars

\* ------------------------------------------------------------------ Library API, threads
\* Threads calling the Library directly.  Every method is one lock block,
\* except purchase, which is two: can_purchase, then the decrement.

\* the batches a caller passes: at most two lines, distinct ids
LibItems ==
    {<<>>}
    \cup {<<<<b, q>>>> : b \in LibBookIds, q \in 0..MaxQty}
    \cup {items \in {<<<<b1, q1>>, <<b2, q2>>>> :
                         b1 \in LibBookIds, b2 \in LibBookIds,
                         q1 \in 0..MaxQty, q2 \in 0..MaxQty} :
              items[1][1] # items[2][1]}

\* restock is called with the items of an order: quantities that passed can_purchase
RestockItems == {items \in LibItems : \A i \in DOMAIN items : items[i][2] >= 1}

LibAddBook(t, title, author, bid, n) ==
    /\ pc[t] = "idle"
    /\ books' = add_book(books, title, author, bid, n, None, None, None).books
    /\ UNCHANGED <<lock, users, borrow_records, orders, disk, pc, cart, loc, ret>>

LibAddStock(t, bid, q) ==
    /\ pc[t] = "idle"
    /\ bid \in DOMAIN books => books[bid].total_copies + q <= MaxCopies
    /\ books' = add_stock(books, bid, q).books
    /\ UNCHANGED <<lock, users, borrow_records, orders, disk, pc, cart, loc, ret>>

\* purchase, up to `if not ok: return False, msg`
LibPurchaseCheck(t, items) ==
    /\ pc[t] = "idle"
    /\ IF can_purchase(books, items).ok
       THEN /\ cart' = [cart EXCEPT ![t] = items]
            /\ pc' = [pc EXCEPT ![t] = "lib_purchase_dec"]
       ELSE UNCHANGED <<lock, cart, pc>>
    /\ UNCHANGED <<lock, books, users, borrow_records, orders, disk, loc, ret>>

\* purchase, the decrement block
LibPurchaseDec(t) ==
    /\ pc[t] = "lib_purchase_dec"
    /\ books' = purchase_decrement(books, cart[t])
    /\ cart' = [cart EXCEPT ![t] = <<>>]
    /\ pc' = [pc EXCEPT ![t] = "idle"]
    /\ UNCHANGED <<lock, users, borrow_records, orders, disk, loc, ret>>

LibRestock(t, items) ==
    /\ pc[t] = "idle"
    /\ books' = restock(books, items)
    /\ UNCHANGED <<lock, users, borrow_records, orders, disk, pc, cart, loc, ret>>

LibBorrow(t, u, bid) ==
    /\ pc[t] = "idle"
    /\ Len(borrow_records) < MaxBorrows
    /\ LET r == borrow_book(books, users, borrow_records, u, bid)
       IN /\ books' = r.books
          /\ users' = r.users
          /\ borrow_records' = r.borrow_records
    /\ UNCHANGED <<lock, orders, disk, pc, cart, loc, ret>>

LibReturn(t, u, bid) ==
    /\ pc[t] = "idle"
    /\ LET r == return_book(books, users, borrow_records, u, bid)
       IN /\ books' = r.books
          /\ users' = r.users
          /\ borrow_records' = r.borrow_records
    /\ UNCHANGED <<lock, orders, disk, pc, cart, loc, ret>>

\* Library("Digital Library"): no books, no users, no records
InitLib ==
    /\ books = EmptyDict
    /\ users = EmptyDict
    /\ borrow_records = <<>>
    /\ orders = <<>>
    /\ disk = Blob(EmptyDict, <<>>)
    /\ pc = [s \in Sessions |-> "idle"]
    /\ cart = [s \in Sessions |-> <<>>]
    /\ loc = [s \in Sessions |-> LocInit]
    /\ ret = RetInit
    /\ lock = LockFree

NextLib ==
    \E t \in Sessions :
        \/ \E title \in Titles, a \in Authors, bid \in LibBookIds, n \in 0..MaxCopies :
               LibAddBook(t, title, a, bid, n)
        \/ \E bid \in LibBookIds, q \in 0..MaxQty : LibAddStock(t, bid, q)
        \/ \E items \in LibItems : LibPurchaseCheck(t, items)
        \/ LibPurchaseDec(t)
        \/ \E items \in RestockItems : LibRestock(t, items)
        \/ \E u \in UserNames, bid \in LibBookIds : LibBorrow(t, u, bid)
        \/ \E u \in UserNames, bid \in LibBookIds : LibReturn(t, u, bid)

SpecLib == InitLib /\ [][NextLib]_vars

\* ------------------------------------------------------------------ Library API, one caller
\* One caller making Library calls one after the other; ret is what the last
\* call was given and what it returned.

CallAddBook(title, author, bid, n, image_url, image_bytes, image_mime) ==
    /\ LET r == add_book(books, title, author, bid, n, image_url, image_bytes, image_mime)
       IN /\ books' = r.books
          /\ ret' = [op |-> "add_book",
                     args |-> <<bid, n, title, image_url, image_bytes>>,
                     msg |-> r.msg]
    /\ UNCHANGED <<lock, users, borrow_records, orders, disk, pc, cart, loc>>

CallSetPrice(bid, p) ==
    /\ LET r == set_price(books, bid, p)
       IN /\ books' = r.books
          /\ ret' = [op |-> "set_price", args |-> <<bid, p>>, msg |-> r.msg]
    /\ UNCHANGED <<lock, users, borrow_records, orders, disk, pc, cart, loc>>

CallAddStock(bid, q) ==
    /\ bid \in DOMAIN books => books[bid].total_copies + q <= MaxCopies
    /\ LET r == add_stock(books, bid, q)
       IN /\ books' = r.books
          /\ ret' = [op |-> "add_stock", args |-> <<bid, q>>, msg |-> r.msg]
    /\ UNCHANGED <<lock, users, borrow_records, orders, disk, pc, cart, loc>>

CallPurchase(items) ==
    /\ LET r == purchase(books, items)
       IN /\ books' = r.books
          /\ ret' = [op |-> "purchase", args |-> items, msg |-> r.msg]
    /\ UNCHANGED <<lock, users, borrow_records, orders, disk, pc, cart, loc>>

CallRestock(items) ==
    /\ books' = restock(books, items)
    /\ ret' = [op |-> "restock", args |-> items, msg |-> <<"Restocked.">>]
    /\ UNCHANGED <<lock, users, borrow_records, orders, disk, pc, cart, loc>>

CallBorrow(u, bid) ==
    /\ Len(borrow_records) < MaxBorrows
    /\ LET r == borrow_book(books, users, borrow_records, u, bid)
       IN /\ books' = r.books
          /\ users' = r.users
          /\ borrow_records' = r.borrow_records
          /\ ret' = [op |-> "borrow_book", args |-> <<u, bid>>, msg |-> r.msg]
    /\ UNCHANGED <<lock, orders, disk, pc, cart, loc>>

CallReturn(u, bid) ==
    /\ LET r == return_book(books, users, borrow_records, u, bid)
       IN /\ books' = r.books
          /\ users' = r.users
          /\ borrow_records' = r.borrow_records
          /\ ret' = [op |-> "return_book", args |-> <<u, bid>>, msg |-> r.msg]
    /\ UNCHANGED <<lock, orders, disk, pc, cart, loc>>

NextSeq ==
    \/ \E title \in Titles, a \in Authors, bid \in LibBookIds, n \in 0..MaxCopies :
           CallAddBook(title, a, bid, n, None, None, None)
    \/ \E bid \in LibBookIds, p \in 0..MaxPrice : CallSetPrice(bid, p)
    \/ \E bid \in LibBookIds, q \in 0..MaxQty : CallAddStock(bid, q)
    \/ \E items \in LibItems : CallPurchase(items)
    \/ \E items \in RestockItems : CallRestock(items)
    \/ \E u \in UserNames, bid \in LibBookIds : CallBorrow(u, bid)
    \/ \E u \in UserNames, bid \in LibBookIds : CallReturn(u, bid)

SpecSeq == InitLib /\ [][NextSeq]_vars

\* ------------------------------------------------------------------ purchase and restock as functions
\* a book after add_book(n) and purchases that leave a of its n copies
BookStates ==
    {[Book(t, au, bid, n, None, None, None, 0) EXCEPT !.available_copies = a] :
         t \in Titles, au \in Authors, bid \in LibBookIds,
         n \in 1..MaxCopies, a \in 0..MaxCopies}

\* every catalog over LibBookIds the Library can hold
Catalogs ==
    UNION {{c \in [ids -> BookStates] :
                \A bid \in ids :
                    /\ c[bid].book_id = bid
                    /\ c[bid].available_copies <= c[bid].total_copies} :
               ids \in SUBSET LibBookIds}

InitCatalog ==
    /\ books \in Catalogs
    /\ users = EmptyDict
    /\ borrow_records = <<>>
    /\ orders = <<>>
    /\ disk = Blob(EmptyDict, <<>>)
    /\ pc = [s \in Sessions |-> "idle"]
    /\ cart = [s \in Sessions |-> <<>>]
    /\ loc = [s \in Sessions |-> LocInit]
    /\ ret = RetInit
    /\ lock = LockFree

NextPurchase ==
    \/ \E items \in LibItems : CallPurchase(items)
    \/ \E items \in RestockItems : CallRestock(items)

SpecPurchase == InitCatalog /\ [][NextPurchase]_vars

\* ------------------------------------------------------------------ add_book as a function
\* the covers a caller passes: none, a URL, a blank URL, uploaded bytes with
\* their mime type, and both a URL and bytes
Covers ==
    {<<None, None, None>>, <<"U1", None, None>>, <<"", None, None>>,
     <<None, "PNG", "image/png">>, <<"U1", "PNG", "image/png">>}

NewTitles == {"T1", "T2"}

NextAddBook ==
    \E title \in NewTitles, a \in Authors, bid \in AppBookIds,
       n \in (-1)..MaxCopies, c \in Covers :
        CallAddBook(title, a, bid, n, c[1], c[2], c[3])

SpecAddBook == InitCatalog /\ [][NextAddBook]_vars

\* ------------------------------------------------------------------ set_price as a function
\* set_price takes any float: the prices a caller passes include a negative one
NextPrice ==
    \E bid \in LibBookIds, p \in (-1)..MaxPrice : CallSetPrice(bid, p)

SpecPrice == InitCatalog /\ [][NextPrice]_vars

\* ------------------------------------------------------------------ save and load
\* persist_now of the state in memory, then a new process: get_store loads the
\* file into a new Library and a new ledger
Restart ==
    /\ LET file == save_state(to_dict(books), orders)
           state == load_state(file)
       IN /\ books' = load_from_dict(state.books)
          /\ orders' = state.orders
          /\ disk' = state
    /\ users' = EmptyDict
    /\ borrow_records' = <<>>
    /\ ret' = [op |-> "restart", args |-> <<>>, msg |-> <<>>]
    /\ UNCHANGED <<lock, pc, cart, loc>>

\* the ledgers the state starts from: empty, or one order of customer s1
Ledgers ==
    {<<>>,
     <<[order_id |-> new_order_id(<<>>), customer |-> "s1", user_id |-> "s1",
        items |-> <<<<"B1", 1>>>>, status |-> PENDING_PAYMENT,
        total_usd |-> MaxPrice, admin_note |-> <<>>]>>}

InitSaved ==
    /\ books \in Catalogs
    /\ orders \in Ledgers
    /\ users = EmptyDict
    /\ borrow_records = <<>>
    /\ disk = Blob(books, orders)
    /\ pc = [s \in Sessions |-> "idle"]
    /\ cart = [s \in Sessions |-> <<>>]
    /\ loc = [s \in Sessions |-> LocInit]
    /\ ret = RetInit
    /\ lock = LockFree

NextSaved ==
    \/ \E title \in Titles, a \in Authors, bid \in AppBookIds,
          n \in 1..MaxCopies, c \in Covers :
           CallAddBook(title, a, bid, n, c[1], c[2], c[3])
    \/ \E bid \in AppBookIds, p \in 0..MaxPrice : CallSetPrice(bid, p)
    \/ Restart

SpecSaved == InitSaved /\ [][NextSaved]_vars

\* ------------------------------------------------------------------ the lock as state
\* Threads running borrow_book, the reminder handler and the Save Book handler
\* with every acquire and release of the lock as a step.  loc[t].args holds the
\* arguments of the call a thread is in.

\* the store of a process that has taken one order for one copy of B1
InitLock ==
    /\ books = purchase(load_from_dict(StateFile.books), <<<<"B1", 1>>>>).books
    /\ orders \in Ledgers \ {<<>>}
    /\ users = EmptyDict
    /\ borrow_records = <<>>
    /\ disk = Blob(books, orders)
    /\ pc = [s \in Sessions |-> "idle"]
    /\ cart = [s \in Sessions |-> <<>>]
    /\ loc = [s \in Sessions |-> LocInit]
    /\ ret = RetInit
    /\ lock = LockFree

\* threads that are inside borrow_book
Borrowing ==
    {t \in Sessions : pc[t] \in {"borrow_book", "get_or_create_user", "borrow_finish"}}

\* a thread calls borrow_book, or a button of its session fires
LkCall(t, op, args) ==
    /\ pc[t] = "idle"
    /\ op = "borrow_book"
           => Len(borrow_records) + Cardinality(Borrowing) < MaxBorrows
    /\ pc' = [pc EXCEPT ![t] = op]
    /\ loc' = [loc EXCEPT ![t].args = args]
    /\ UNCHANGED <<lock, books, users, borrow_records, orders, disk, cart, ret>>

\* borrow_book: `with self._lock` and the two tests (library_core.py:226-232);
\* a return inside the block releases the lock
LkBorrowEnter(t) ==
    /\ pc[t] = "borrow_book"
    /\ rlock_can_acquire(lock, t)
    /\ LET book_id == loc[t].args[2]
       IN IF book_id \notin DOMAIN books \/ ~is_available(books[book_id])
          THEN /\ lock' = rlock_release(rlock_acquire(lock, t))
               /\ pc' = [pc EXCEPT ![t] = "idle"]
               /\ loc' = [loc EXCEPT ![t] = LocInit]
          ELSE /\ lock' = rlock_acquire(lock, t)
               /\ pc' = [pc EXCEPT ![t] = "get_or_create_user"]
               /\ loc' = loc
    /\ UNCHANGED <<books, users, borrow_records, orders, disk, cart, ret>>

\* get_or_create_user, called with the lock held: its own `with self._lock`
\* (library_core.py:99-103)
LkGetOrCreateUser(t) ==
    /\ pc[t] = "get_or_create_user"
    /\ rlock_can_acquire(lock, t)
    /\ users' = get_or_create_user(users, loc[t].args[1])
    /\ lock' = rlock_release(rlock_acquire(lock, t))
    /\ pc' = [pc EXCEPT ![t] = "borrow_finish"]
    /\ UNCHANGED <<books, borrow_records, orders, disk, cart, loc, ret>>

\* the rest of borrow_book and the end of its block (library_core.py:235-239)
LkBorrowFinish(t) ==
    /\ pc[t] = "borrow_finish"
    /\ LET r == borrow_book(books, users, borrow_records,
                            loc[t].args[1], loc[t].args[2])
       IN /\ books' = r.books
          /\ users' = r.users
          /\ borrow_records' = r.borrow_records
    /\ lock' = rlock_release(lock)
    /\ pc' = [pc EXCEPT ![t] = "idle"]
    /\ loc' = [loc EXCEPT ![t] = LocInit]
    /\ UNCHANGED <<orders, disk, cart, ret>>

\* Send payment reminder: `with store["lock"]` and the write (app.py:404-408)
LkReminderEnter(t) ==
    /\ pc[t] = "reminder"
    /\ rlock_can_acquire(lock, t)
    /\ lock' = rlock_acquire(lock, t)
    /\ LET i == loc[t].args[1]
           idx == find_order_index(orders, orders[i].order_id)
       IN orders' = [orders EXCEPT ![idx].admin_note = reminder_note(orders[i].order_id)]
    /\ pc' = [pc EXCEPT ![t] = "persist_now"]
    /\ UNCHANGED <<books, users, borrow_records, disk, cart, loc, ret>>

\* Save Book: `with store["lock"]` (app.py:310)
LkSaveBookEnter(t) ==
    /\ pc[t] = "save_book"
    /\ rlock_can_acquire(lock, t)
    /\ lock' = rlock_acquire(lock, t)
    /\ pc' = [pc EXCEPT ![t] = "add_book"]
    /\ UNCHANGED <<books, users, borrow_records, orders, disk, cart, loc, ret>>

\* lib.add_book inside the block: its own `with self._lock` (app.py:311-319)
LkAddBook(t) ==
    /\ pc[t] = "add_book"
    /\ rlock_can_acquire(lock, t)
    /\ books' = add_book(books, "T1", "A1", "B1", loc[t].args[1],
                         None, None, None).books
    /\ lock' = rlock_release(rlock_acquire(lock, t))
    /\ pc' = [pc EXCEPT ![t] = "set_price"]
    /\ UNCHANGED <<users, borrow_records, orders, disk, cart, loc, ret>>

\* lib.set_price inside the block, and the end of the block (app.py:320)
LkSetPrice(t) ==
    /\ pc[t] = "set_price"
    /\ rlock_can_acquire(lock, t)
    /\ books' = set_price(books, "B1", loc[t].args[2]).books
    /\ lock' = rlock_release(rlock_release(rlock_acquire(lock, t)))
    /\ pc' = [pc EXCEPT ![t] = "persist_now"]
    /\ UNCHANGED <<users, borrow_records, orders, disk, cart, loc, ret>>

\* persist_now: `with store["lock"]` (app.py:150)
LkPersistEnter(t) ==
    /\ pc[t] = "persist_now"
    /\ rlock_can_acquire(lock, t)
    /\ lock' = rlock_acquire(lock, t)
    /\ pc' = [pc EXCEPT ![t] = "to_dict"]
    /\ UNCHANGED <<books, users, borrow_records, orders, disk, cart, loc, ret>>

\* lib.to_dict with its own `with self._lock`, list(store["orders"]) and the
\* end of the block of persist_now (app.py:151-152)
LkToDict(t) ==
    /\ pc[t] = "to_dict"
    /\ rlock_can_acquire(lock, t)
    /\ loc' = [loc EXCEPT ![t].snap = <<Blob(books, orders)>>]
    /\ lock' = rlock_release(rlock_release(rlock_acquire(lock, t)))
    /\ pc' = [pc EXCEPT ![t] = "save_state"]
    /\ UNCHANGED <<books, users, borrow_records, orders, disk, cart, ret>>

\* save_state (app.py:153); a handler that called persist_now inside its lock
\* block then leaves the block (app.py:398, 409, 418)
LkSaveState(t) ==
    /\ pc[t] = "save_state"
    /\ disk' = loc[t].snap[1]
    /\ lock' = IF lock.owner = t THEN rlock_release(lock) ELSE lock
    /\ loc' = [loc EXCEPT ![t] = LocInit]
    /\ pc' = [pc EXCEPT ![t] = "idle"]
    /\ UNCHANGED <<books, users, borrow_records, orders, cart, ret>>

\* the steps of a thread inside a call
LkRun(t) ==
    \/ LkBorrowEnter(t)
    \/ LkGetOrCreateUser(t)
    \/ LkBorrowFinish(t)
    \/ LkReminderEnter(t)
    \/ LkSaveBookEnter(t)
    \/ LkAddBook(t)
    \/ LkSetPrice(t)
    \/ LkPersistEnter(t)
    \/ LkToDict(t)
    \/ LkSaveState(t)

NextLock ==
    \E t \in Sessions :
        \/ \E u \in UserNames, bid \in LibBookIds :
               LkCall(t, "borrow_book", <<u, bid>>)
        \/ \E i \in DOMAIN orders : LkCall(t, "reminder", <<i>>)
        \/ \E n \in 1..MaxCopies : LkCall(t, "save_book", <<n, MaxPrice>>)
        \/ LkRun(t)

\* a thread inside a call is scheduled again and again, and a thread that asks
\* for the lock gets it if the lock is free again and again
SpecLock ==
    InitLock /\ [][NextLock]_vars /\ \A t \in Sessions : SF_vars(LkRun(t))

\* ------------------------------------------------------------------ borrow and return as functions
Borrowers == {"ann", "bob"}

NextBorrow ==
    \/ \E u \in Borrowers, bid \in LibBookIds : CallBorrow(u, bid)
    \/ \E u \in Borrowers, bid \in LibBookIds : CallReturn(u, bid)

SpecBorrow == InitCatalog /\ [][NextBorrow]_vars

\* ------------------------------------------------------------------ properties

\* a line of the batch that cannot be reserved from the catalog bks
LineFails(bks, line) ==
    \/ line[1] \notin DOMAIN bks
    \/ line[2] <= 0
    \/ line[2] > bks[line[1]].available_copies

AnyLineFails(bks, items) == \E i \in DOMAIN items : LineFails(bks, items[i])

\* C1: for every book, in every state reached by any interleaving of add_book,
\* add_stock, purchase, restock, borrow_book and return_book by several threads,
\* 0 <= available_copies <= total_copies.
C1_AvailableWithinTotal ==
    \A bid \in DOMAIN books :
        /\ 0 <= books[bid].available_copies
        /\ books[bid].available_copies <= books[bid].total_copies

\* a thread has passed can_purchase for more copies than are left by now,
\* after a borrow by another thread
C1_Witness ==
    \E t \in Sessions, bid \in DOMAIN books :
        /\ pc[t] = "lib_purchase_dec"
        /\ DictGet(cart[t], bid) > books[bid].available_copies
        /\ Len(borrow_records) >= 1

\* C2: purchase is all-or-nothing: when any line of the batch fails (unknown id,
\* quantity <= 0, quantity above available_copies) the call reports failure and
\* the catalog is unchanged, the lines before the failing one included.
C2_PurchaseAllOrNothing ==
    [][(ret'.op = "purchase" /\ AnyLineFails(books, ret'.args))
           => (books' = books /\ ret'.msg # <<"Purchased.">>)]_vars

\* a two-line purchase was refused although its first line could be reserved
C2_Witness ==
    /\ ret.op = "purchase"
    /\ ret.msg # <<"Purchased.">>
    /\ Len(ret.args) = 2
    /\ ~LineFails(books, ret.args[1])
    /\ LineFails(books, ret.args[2])

\* C3: a second Cancel (Restock) of the same order is refused: it changes no
\* order and restocks nothing.
C3_SecondCancelRefused ==
    [][\A s \in Sessions, i \in 1..MaxOrders :
           (CancelRestock(s, i) /\ orders[i].status = CANCELLED)
               => (books' = books /\ orders' = orders)]_vars

\* C4: DELIVERED and CANCELLED (RESTOCKED) are absorbing: no step changes the
\* status of an order that has one of them, and cancelling a DELIVERED order
\* restocks nothing.
C4_TerminalAbsorbing ==
    [][/\ \A i \in DOMAIN orders :
              orders[i].status \in {DELIVERED, CANCELLED}
                  => orders'[i].status = orders[i].status
       /\ \A s \in Sessions, i \in 1..MaxOrders :
              (CancelRestock(s, i) /\ orders[i].status = DELIVERED)
                  => books' = books]_vars

\* C5: whenever the status of an order changes to PAID, its status in the
\* ledger right before the write was PENDING_PAYMENT.
C5_PaidOnlyFromPending ==
    [][\A i \in DOMAIN orders :
           (orders'[i].status = PAID /\ orders[i].status # PAID)
               => orders[i].status = PENDING_PAYMENT]_vars

\* C6: whenever the status of an order changes to DELIVERED, its status in the
\* ledger right before the write was PAID.
C6_DeliveredOnlyFromPaid ==
    [][\A i \in DOMAIN orders :
           (orders'[i].status = DELIVERED /\ orders[i].status # DELIVERED)
               => orders[i].status = PAID]_vars

\* C7: order creation fails with nothing created or succeeds completely: a
\* refused reservation leaves the ledger and the stock unchanged; a granted one
\* reduces every line's available_copies by its quantity and appends exactly one
\* order, PENDING_PAYMENT, with the cart as its items.
C7_OrderCreationComplete ==
    [][\A s \in Sessions :
           /\ (PurchaseCheck(s) /\ ~can_purchase(books, cart[s]).ok)
                  => (orders' = orders /\ books' = books)
           /\ PurchaseDecrement(s)
                  => \A k \in DOMAIN cart[s] :
                         books'[cart[s][k][1]].available_copies =
                             books[cart[s][k][1]].available_copies - cart[s][k][2]
           /\ AppendOrder(s)
                  => /\ Len(orders') = Len(orders) + 1
                     /\ SubSeq(orders', 1, Len(orders)) = orders
                     /\ orders'[Len(orders')].status = PENDING_PAYMENT
                     /\ orders'[Len(orders')].items = cart[s]]_vars

\* C8: stock is never oversold: a purchase whose quantity exceeds the stock that
\* is available when its decrement runs does not succeed.
C8_NoOversell ==
    [][\A s \in Sessions :
           (pc[s] = "purchase_dec" /\ AnyLineFails(books, cart[s]))
               => pc'[s] # "append_order"]_vars

\* C9: the reservation and the append of the order are one critical section: at
\* no point where the lock is free (every state of the model) has a session
\* taken stock for an order that is not in the ledger yet.
C9_ReserveAppendAtomic ==
    \A s \in Sessions : pc[s] # "append_order"

\* C10: after any interleaving of order creations by several sessions the
\* order ids of the ledger are pairwise distinct.
C10_OrderIdsUnique ==
    \A i \in DOMAIN orders, j \in DOMAIN orders :
        i # j => orders[i].order_id # orders[j].order_id

\* two sessions have each created an order, the first of them cancelled since
C10_Witness ==
    /\ Len(orders) = 2
    /\ orders[1].customer # orders[2].customer
    /\ orders[1].status = CANCELLED
    /\ orders[2].order_id = <<"ORD-", 0, 0, 0, 0, 2>>

\* C11: the total_usd stored in a new order is the sum over its items of
\* quantity x the price the book has when the order is appended, also when an
\* admin saves a new price while the checkout is under way.
C11_TotalIsPriceAtCreation ==
    [][Len(orders') = Len(orders) + 1
           => orders'[Len(orders')].total_usd =
                  order_total(books', orders'[Len(orders')].items)]_vars

\* C12: the items and the total_usd of an order in the ledger are never changed
\* by a later step (Save Book, cart edits, Pay Now, Mark Delivered, Cancel,
\* reminder), and no order leaves the ledger.
C12_OrderItemsTotalFixed ==
    [][\A i \in DOMAIN orders :
           /\ i \in DOMAIN orders'
           /\ orders'[i].items = orders[i].items
           /\ orders'[i].total_usd = orders[i].total_usd]_vars

\* an order that was reminded and cancelled, whose book was re-priced
\* after it was created, while its customer is filling the cart again
C12_Witness ==
    /\ Len(orders) >= 1
    /\ orders[1].status = CANCELLED
    /\ orders[1].admin_note # <<>>
    /\ orders[1].total_usd = MaxPrice * orders[1].items[1][2]
    /\ books[orders[1].items[1][1]].price = 0
    /\ cart[orders[1].customer] # <<>>

\* a value brought into the range lo..hi
Clamp(x, lo, hi) == IF x < lo THEN lo ELSE IF x > hi THEN hi ELSE x

\* C13: add_book on an existing id with T > 0 sets total_copies to T (it does
\* not add T) and available_copies to T minus the copies that were out,
\* brought into 0..T.
C13_AddBookOverwritesTotal ==
    [][(/\ ret'.op = "add_book"
        /\ ret'.args[1] \in DOMAIN books
        /\ ret'.args[2] > 0)
           => LET bid == ret'.args[1]
                  T == ret'.args[2]
                  out == books[bid].total_copies - books[bid].available_copies
              IN /\ books'[bid].total_copies = T
                 /\ books'[bid].available_copies = Clamp(T - out, 0, T)]_vars

\* a book with copies out was saved again and still has copies out and copies in
C13_Witness ==
    /\ ret.op = "add_book"
    /\ ret.msg = <<"Book updated (total copies set).">>
    /\ books[ret.args[1]].total_copies = ret.args[2]
    /\ books[ret.args[1]].available_copies > 0
    /\ books[ret.args[1]].available_copies < books[ret.args[1]].total_copies

\* C14: add_book with total_copies <= 0 returns its error message and leaves
\* the catalog as it was: no book is created and an existing book keeps its
\* title, author, copies and cover.
C14_AddBookRejectsNonPositive ==
    [][(ret'.op = "add_book" /\ ret'.args[2] <= 0)
           => (books' = books /\ ret'.msg = <<"total_copies must be > 0.">>)]_vars

\* add_book with no copies, another title and a cover was refused for a book
\* that exists
C14_Witness ==
    /\ ret.op = "add_book"
    /\ ret.args[2] <= 0
    /\ ret.args[1] \in DOMAIN books
    /\ ret.args[3] # books[ret.args[1]].title
    /\ ret.args[5] # None
    /\ books[ret.args[1]].image_bytes = None

\* C20: no book has both image_bytes and image_url set, whatever covers the
\* add_book calls were given.
C20_OneCoverVariant ==
    \A bid \in DOMAIN books :
        ~(books[bid].image_bytes # None /\ books[bid].image_url \notin {None, ""})

\* C15: the price of every book is non-negative in every reachable state.
C15_PriceNonNegative ==
    \A bid \in DOMAIN books : books[bid].price >= 0

\* C16: set_price on an unknown id returns "Book ID not found." and changes
\* nothing; on a known id it changes the price of that book and nothing else:
\* no other field of the book, no other book, no order, and no id comes or goes.
C16_SetPriceFrame ==
    [][ret'.op = "set_price"
           => LET bid == ret'.args[1]
                  p == ret'.args[2]
              IN /\ orders' = orders
                 /\ DOMAIN books' = DOMAIN books
                 /\ \A b \in DOMAIN books : b # bid => books'[b] = books[b]
                 /\ bid \notin DOMAIN books
                        => ret'.msg = <<"Book ID not found.">>
                 /\ bid \in DOMAIN books
                        => /\ books'[bid].price = p
                           /\ [books'[bid] EXCEPT !.price = 0]
                                  = [books[bid] EXCEPT !.price = 0]]_vars

\* set_price was refused for an unknown id while another book, priced by an
\* earlier call, is in the catalog
C16_Witness ==
    /\ ret.op = "set_price"
    /\ ret.msg = <<"Book ID not found.">>
    /\ ret.args[1] \notin DOMAIN books
    /\ \E b \in DOMAIN books : books[b].price = MaxPrice

\* C17: restock sets available_copies of every book of the batch that exists to
\* min(total_copies, available_copies + qty), never above total_copies; it
\* ignores unknown ids and changes no total_copies, no other field and no book
\* outside the batch.
C17_RestockClamped ==
    [][ret'.op = "restock"
           => LET items == ret'.args
              IN /\ DOMAIN books' = DOMAIN books
                 /\ \A b \in DOMAIN books :
                        /\ [books'[b] EXCEPT !.available_copies = 0]
                               = [books[b] EXCEPT !.available_copies = 0]
                        /\ books'[b].available_copies <= books'[b].total_copies
                        /\ books'[b].available_copies =
                               IF books[b].available_copies + DictGet(items, b)
                                      > books[b].total_copies
                               THEN books[b].total_copies
                               ELSE books[b].available_copies + DictGet(items, b)]_vars

\* a batch with an unknown id and a known one was restocked, and the known
\* book stands at its total although the batch brought more than one copy
C17_Witness ==
    /\ ret.op = "restock"
    /\ Len(ret.args) = 2
    /\ \E i \in DOMAIN ret.args, j \in DOMAIN ret.args :
           /\ ret.args[i][1] \notin DOMAIN books
           /\ ret.args[j][1] \in DOMAIN books
           /\ ret.args[j][2] = MaxQty
           /\ books[ret.args[j][1]].available_copies
                  = books[ret.args[j][1]].total_copies

\* C18: whenever no handler is under way (every started save has finished) the
\* state file holds the catalog and the ledger as they are in memory.
C18_DiskFollowsMemory ==
    (\A s \in Sessions : pc[s] = "idle") => disk = Blob(books, orders)

\* C19: saving the catalog and the ledger and loading them again gives the
\* state that was saved: the same ids with the same title, author,
\* total_copies, available_copies, price and cover, and the same orders.
C19_SaveLoadRoundTrip ==
    [][ret'.op = "restart" => (books' = books /\ orders' = orders)]_vars

\* C21: the payment reminder can be sent for an order in any status, and it
\* changes the admin_note of that order only: its status, items and total,
\* every other order and every book are as before.
C21_NoteIsMetadata ==
    /\ [](\A s \in Sessions, i \in DOMAIN orders :
              pc[s] = "idle" => ENABLED SendReminder(s, i))
    /\ [][\A s \in Sessions, i \in 1..MaxOrders :
              SendReminder(s, i)
                  => /\ books' = books
                     /\ Len(orders') = Len(orders)
                     /\ \A j \in DOMAIN orders : j # i => orders'[j] = orders[j]
                     /\ [orders'[i] EXCEPT !.admin_note = <<>>]
                            = [orders[i] EXCEPT !.admin_note = <<>>]]_vars

\* a delivered order carries a reminder while the order before it, cancelled,
\* carries none
C21_Witness ==
    /\ Len(orders) = 2
    /\ orders[1].status = CANCELLED
    /\ orders[1].admin_note = <<>>
    /\ orders[2].status = DELIVERED
    /\ orders[2].admin_note = reminder_note(orders[2].order_id)

\* C22: no call is suspended for ever: a thread that has started a call
\* reaches the end of it and does not own the lock then, whatever the other
\* threads do; when no thread is in a call the lock is free.
C22_NoSuspension ==
    /\ \A t \in Sessions :
           (pc[t] # "idle") ~> (pc[t] = "idle" /\ lock.owner # t)
    /\ []((\A t \in Sessions : pc[t] = "idle") => lock = LockFree)

\* a thread is in persist_now inside the lock block of its handler, the lock
\* acquired twice, while the other thread waits for the lock in borrow_book
C22_Witness ==
    \E t \in Sessions, w \in Sessions :
        /\ pc[t] = "to_dict"
        /\ lock = [owner |-> t, count |-> 2]
        /\ pc[w] = "borrow_book"

\* C23: the ledger is append-only: no step removes or reorders orders or
\* changes an order_id, and the order at position i has the id ORD-0000i.
C23_LedgerAppendOnly ==
    /\ [](\A i \in DOMAIN orders : orders[i].order_id = <<"ORD-", 0, 0, 0, 0, i>>)
    /\ [][/\ Len(orders') >= Len(orders)
          /\ \A i \in DOMAIN orders :
                 /\ orders'[i].order_id = orders[i].order_id
                 /\ orders'[i].customer = orders[i].customer]_vars

\* a full ledger whose first order was cancelled, its copies back in stock,
\* while the last one is paid
C23_Witness ==
    /\ Len(orders) = MaxOrders
    /\ orders[1].status = CANCELLED
    /\ books[orders[1].items[1][1]].available_copies
           = books[orders[1].items[1][1]].total_copies
    /\ orders[Len(orders)].status = PAID

\* the copies of book bid in the orders from position i on that are not cancelled
RECURSIVE OrderedFrom(_, _, _)
OrderedFrom(ords, bid, i) ==
    IF i > Len(ords)
    THEN 0
    ELSE (IF ords[i].status # CANCELLED THEN DictGet(ords[i].items, bid) ELSE 0)
         + OrderedFrom(ords, bid, i + 1)

\* C24: with order creations, payments, deliveries and cancellations only, and
\* no checkout under way, total_copies - available_copies of every book is the
\* sum of its quantities over the orders that are not CANCELLED (RESTOCKED).
C24_StockConservation ==
    (\A s \in Sessions : pc[s] = "idle")
        => \A bid \in DOMAIN books :
               books[bid].total_copies - books[bid].available_copies
                   = OrderedFrom(orders, bid, 1)

\* how often x occurs in the list s
Occurrences(s, x) == Cardinality({i \in DOMAIN s : s[i] = x})

\* the borrow records of user u for book b
RecordsOf(recs, u, b) ==
    Cardinality({i \in DOMAIN recs : recs[i].user = u /\ recs[i].book_id = b})

\* C25: for every user u and book b, b occurs in u's borrowed_books as often as
\* borrow_records has an entry of u for b, and a borrow of a book that has a
\* copy available lowers its available_copies by exactly 1.
C25_BorrowBookkeeping ==
    /\ [](\A u \in Borrowers, b \in LibBookIds :
              RecordsOf(borrow_records, u, b)
                  = IF u \in DOMAIN users THEN Occurrences(users[u], b) ELSE 0)
    /\ [][(/\ ret'.op = "borrow_book"
           /\ ret'.args[2] \in DOMAIN books
           /\ books[ret'.args[2]].available_copies > 0)
              => /\ books'[ret'.args[2]].available_copies
                        = books[ret'.args[2]].available_copies - 1
                 /\ Len(borrow_records') = Len(borrow_records) + 1]_vars

\* one of two borrowed copies has been returned, and both users are known
C25_Witness ==
    /\ ret.op = "return_book"
    /\ Len(ret.msg) = 3
    /\ Len(borrow_records) = 1
    /\ DOMAIN users = Borrowers

\* C26: a borrow of an unknown id or of a book with no copy available, and a
\* return of an unknown id, by an unknown user or of a book the user has not
\* borrowed, return an error message and leave the books, the users (no user
\* is created) and the borrow records as they were.
C26_FailedBorrowReturnNoEffect ==
    [][LET u == ret'.args[1]
           b == ret'.args[2]
           same == books' = books /\ users' = users
                       /\ borrow_records' = borrow_records
       IN /\ (/\ ret'.op = "borrow_book"
               /\ (b \notin DOMAIN books \/ books[b].available_copies = 0))
                 => (same /\ Len(ret'.msg) = 1)
          /\ (/\ ret'.op = "return_book"
               /\ \/ b \notin DOMAIN books
                  \/ u \notin DOMAIN users
                  \/ Occurrences(users[u], b) = 0)
                 => (same /\ Len(ret'.msg) = 1)]_vars

\* a user nobody knows was refused a book that is not in the catalog, while
\* another user holds a book
C26_Witness ==
    /\ ret.op = "borrow_book"
    /\ ret.msg = <<"Book ID not found.">>
    /\ ret.args[1] \notin DOMAIN users
    /\ Len(borrow_records) >= 1

====
